---- MODULE Spec2Model ----
(***************************************************************************)
(* The recognition pipeline of src/main.cpp (correspondence grouping with  *)
(* SHOT descriptors and Hough 3D voting) as a state machine.               *)
(*                                                                         *)
(* One action per function main() calls, in main()'s order.  The program   *)
(* globals are the variables.  What the program reads from outside (the    *)
(* command line, the two .pcd files) and what the PCL estimators return    *)
(* (keypoints, descriptors, local frames, Hough bins) is fixed by Init in  *)
(* the variables argv, files and lib and never changes.                    *)
(*                                                                         *)
(* Numbers.  A float parameter is a rational <<n, d>> with d > 0.  A point *)
(* is its x coordinate, an integer or NaN: x is the coordinate the code    *)
(* tests, and distances are taken along it.  A descriptor is the pair      *)
(* <<d0, rest>>: entry 0, the entry the code tests, and the remaining      *)
(* entries collapsed to one coordinate; entries are in quarters, so        *)
(* squared descriptor distances are in sixteenths and 0.25 is 4.           *)
(***************************************************************************)
EXTENDS Integers, Sequences, FiniteSets

VARIABLES
    argv,                   \* the command line
    files,                  \* the content of the two .pcd files
    lib,                    \* what the PCL estimators return in this run
    pc,                     \* the function main() calls next
    show_keypoints_, show_correspondences_,
    model_ss_, scene_ss_, rf_rad_, descr_rad_, cg_size_, cg_thresh_,
    model, scene,
    model_normals, scene_normals,
    model_keypoints, scene_keypoints,
    model_descriptors, scene_descriptors,
    model_scene_corrs,
    rototranslations, clustered_corrs,
    resolution,             \* setUpResolution's local, as it prints it
    queried,                \* scene indices handed to match_search.nearestKSearch
    model_rf, scene_rf,     \* clusteringUsingHough3D's locals, as last computed
    run,                    \* how many times the pipeline was started
    prev                    \* the results of the run before this one

params == <<model_ss_, scene_ss_, rf_rad_, descr_rad_, cg_size_, cg_thresh_>>

flags == <<show_keypoints_, show_correspondences_>>

clouds == <<model, scene, model_normals, scene_normals, model_keypoints, scene_keypoints>>

descriptors == <<model_descriptors, scene_descriptors>>

results == <<rototranslations, clustered_corrs>>

frames == <<model_rf, scene_rf>>

env == <<argv, files, lib>>

vars == <<env, pc, flags, params, clouds, descriptors, model_scene_corrs,
          results, resolution, queried, frames, run, prev>>

-----------------------------------------------------------------------------
(* Bounds of the model. *)

MaxPoints == 3

MaxModelKp == 2

MaxSceneKp == 2

NBins == 2

MaxRuns == 2

-----------------------------------------------------------------------------
(* Numbers. *)

NaN == -1

pcl_isfinite(v) == v # NaN

Rat(n) == <<n, 1>>

RMul(a, b) == <<a[1] * b[1], a[2] * b[2]>>

REq(a, b) == a[1] * b[2] = b[1] * a[2]

RIsZero(a) == a[1] = 0

Min(S) == CHOOSE m \in S : \A n \in S : m <= n

\* sqrt of a perfect square
Sqrt(n) == CHOOSE r \in 0..n : r * r = n

SeqsUpTo(S, n) == UNION {[1..k -> S] : k \in 0..n}

-----------------------------------------------------------------------------
(* The command line. *)

\* an option or a file that is not there is <<>>, one that is there is <<value>>
Absent == <<>>

Given(v) == <<v>>

RadiusNames == {"model_ss", "scene_ss", "rf_rad", "descr_rad", "cg_size"}

OptionNames == RadiusNames \cup {"cg_thresh"}

RadiusArgs == {-1, 0, 2}

ThreshArgs == {1, 3}

NoOptions == [o \in OptionNames |-> Absent]

OptionSets ==
    {NoOptions}
    \cup {[NoOptions EXCEPT ![o] = Given(v)] : o \in RadiusNames, v \in RadiusArgs}
    \cup {[NoOptions EXCEPT !["cg_thresh"] = Given(v)] : v \in ThreshArgs}

\* pcl::console::parse_argument: the variable keeps its value when the option is absent
parse_argument(opts, name, current) ==
    IF opts[name] = Absent THEN current ELSE Rat(opts[name][1])

-----------------------------------------------------------------------------
(* Clouds and the spatial index over them. *)

Coords == {NaN, 0, 1, 3}

Clouds == SeqsUpTo(Coords, MaxPoints)

FiniteIdx(cloud) == {i \in 1..Len(cloud) : pcl_isfinite(cloud[i])}

SqrDist(a, b) == (a - b) * (a - b)

\* tree.nearestKSearch(i, 2, ...): the index holds the finite points; k is cut to
\* their number; the first neighbour is the point itself, the second the nearest
\* other point.
nearestKSearch2(cloud, i) ==
    LET others == FiniteIdx(cloud) \ {i}
    IN  IF others = {}
        THEN [nres |-> Cardinality(FiniteIdx(cloud) \cap {i}), sqr1 |-> 0]
        ELSE [nres |-> 2, sqr1 |-> Min({SqrDist(cloud[i], cloud[j]) : j \in others})]

\* the loop with a non-finite point counted in n_points instead of skipped
RECURSIVE ResolutionLoopCountsSkipped(_, _, _, _)
ResolutionLoopCountsSkipped(cloud, i, res, n_points) ==
    IF i > Len(cloud) THEN <<res, n_points>>
    ELSE IF ~pcl_isfinite(cloud[i])
    THEN ResolutionLoopCountsSkipped(cloud, i + 1, res, n_points + 1)
    ELSE LET q == nearestKSearch2(cloud, i)
         IN  IF q.nres = 2
             THEN ResolutionLoopCountsSkipped(cloud, i + 1, res + Sqrt(q.sqr1), n_points + 1)
             ELSE ResolutionLoopCountsSkipped(cloud, i + 1, res, n_points)

\* the loop of computeCloudResolution from point i on, with res and n_points so far
RECURSIVE ResolutionLoop(_, _, _, _)
ResolutionLoop(cloud, i, res, n_points) ==
    IF i > Len(cloud) THEN <<res, n_points>>
    ELSE IF ~pcl_isfinite(cloud[i]) THEN ResolutionLoop(cloud, i + 1, res, n_points)
    ELSE LET q == nearestKSearch2(cloud, i)
         IN  IF q.nres = 2
             THEN ResolutionLoop(cloud, i + 1, res + Sqrt(q.sqr1), n_points + 1)
             ELSE ResolutionLoop(cloud, i + 1, res, n_points)

computeCloudResolution(cloud) ==
    LET r == ResolutionLoop(cloud, 1, 0, 0)
    IN  IF r[2] # 0 THEN <<r[1], r[2]>> ELSE Rat(r[1])

-----------------------------------------------------------------------------
(* Descriptors and the index over the model descriptors. *)

\* entry 0 is NaN, 0 or 0.25; the rest is NaN, 0 or 0.5
Descs == {NaN, 0, 1} \X {NaN, 0, 2}

DescFinite(d) == pcl_isfinite(d[1]) /\ pcl_isfinite(d[2])

FiniteDescs == {d \in Descs : DescFinite(d)}

DescSqrDist(a, b) == SqrDist(a[1], b[1]) + SqrDist(a[2], b[2])

\* 0.25f, in sixteenths
AcceptThreshold == 4

\* match_search.setInputCloud: the index holds the descriptors with no NaN entry
ValidIdx(descs) == {j \in 1..Len(descs) : DescFinite(descs[j])}

\* What a query with a non-finite descriptor does is outside the index's
\* contract: the assertion of a debug build stops the program ("abort"); a
\* release build reports no neighbour ("none") or reports one and leaves the
\* caller's zero-initialised buffers as they are ("stale").
InvalidQueryOutcomes == {"abort", "none", "stale"}

\* match_search.nearestKSearch(q, 1, neigh_indices, neigh_sqr_dists)
nearestKSearch1(descs, q, outcome) ==
    LET valid == ValidIdx(descs)
        best  == Min({DescSqrDist(descs[j], q) : j \in valid})
    IN  IF ~DescFinite(q)
        THEN CASE outcome = "abort" ->
                    [abort |-> TRUE, found |-> 0, index |-> 0, sqr_dist |-> 0]
               [] outcome = "stale" /\ valid # {} ->
                    [abort |-> FALSE, found |-> 1, index |-> Min(valid) - 1, sqr_dist |-> 0]
               [] OTHER ->
                    [abort |-> FALSE, found |-> 0, index |-> 0, sqr_dist |-> 0]
        ELSE IF valid = {}
        THEN [abort |-> FALSE, found |-> 0, index |-> 0, sqr_dist |-> 0]
        ELSE [abort |-> FALSE, found |-> 1,
              index |-> Min({j \in valid : DescSqrDist(descs[j], q) = best}) - 1,
              sqr_dist |-> best]

\* line 231: the test that skips a scene descriptor
SkipDescriptor(d) == ~pcl_isfinite(d[1])

\* the acceptance test with the bound included
AcceptMatchInclusive(found_neighs, sqr_dist) ==
    found_neighs = 1 /\ sqr_dist <= AcceptThreshold

\* line 236: the test that accepts a neighbour
AcceptMatch(found_neighs, sqr_dist) == found_neighs = 1 /\ sqr_dist < AcceptThreshold

\* the correspondence with its two indices exchanged
CorrespondenceSwapped(index_query, index_match, distance) ==
    [index_query |-> index_match, index_match |-> index_query, distance |-> distance]

\* line 238: pcl::Correspondence corr(neigh_indices[0], i, neigh_sqr_dists[0])
Correspondence(index_query, index_match, distance) ==
    [index_query |-> index_query, index_match |-> index_match, distance |-> distance]

\* the loop of findModelSpaceCorrespondences from scene descriptor i (0-based) on
RECURSIVE CorrLoop(_, _, _, _, _, _)
CorrLoop(mdescs, sdescs, outcome, i, corrs, asked) ==
    IF i >= Len(sdescs) THEN [corrs |-> corrs, queried |-> asked, aborted |-> FALSE]
    ELSE IF SkipDescriptor(sdescs[i + 1])
    THEN CorrLoop(mdescs, sdescs, outcome, i + 1, corrs, asked)
    ELSE LET r == nearestKSearch1(mdescs, sdescs[i + 1], outcome)
         IN  IF r.abort
             THEN [corrs |-> corrs, queried |-> asked \cup {i}, aborted |-> TRUE]
             ELSE IF AcceptMatch(r.found, r.sqr_dist)
             THEN CorrLoop(mdescs, sdescs, outcome, i + 1,
                           Append(corrs, Correspondence(r.index, i, r.sqr_dist)),
                           asked \cup {i})
             ELSE CorrLoop(mdescs, sdescs, outcome, i + 1, corrs, asked \cup {i})

-----------------------------------------------------------------------------
(* Hough voting. *)

\* the correspondences whose vote lands in bin b, in list order
RECURSIVE Voters(_, _, _)
Voters(corrs, bin, b) ==
    IF corrs = <<>> THEN <<>>
    ELSE LET c == Head(corrs)
             rest == Voters(Tail(corrs), bin, b)
         IN  IF bin[c.index_match + 1] = b THEN <<c>> \o rest ELSE rest

\* setHoughThreshold: a bin is a maximum when its votes reach the threshold
ReachesThreshold(votes, thresh) == votes * thresh[2] >= thresh[1]

\* clusterer.recognize: one instance per accepted bin, in bin order
RECURSIVE Recognize(_, _, _, _)
Recognize(corrs, bin, thresh, b) ==
    IF b > NBins THEN <<>>
    ELSE LET v == Voters(corrs, bin, b)
         IN  IF ReachesThreshold(Len(v), thresh)
             THEN <<[bin |-> b, corrs |-> v]>> \o Recognize(corrs, bin, thresh, b + 1)
             ELSE Recognize(corrs, bin, thresh, b + 1)

-----------------------------------------------------------------------------
(* What the run reads from outside: command lines, files, estimator results. *)

Argv(help, nfiles, k, c, opts) ==
    [help |-> help, nfiles |-> nfiles, k |-> k, c |-> c, opts |-> opts]

PlainArgv(opts) == Argv(FALSE, 2, FALSE, FALSE, opts)

Lib(mkept, skept, md, sd, mrf, srf, bin, invalid_query) ==
    [mkept |-> mkept, skept |-> skept, md |-> md, sd |-> sd,
     mrf |-> mrf, srf |-> srf, bin |-> bin, invalid_query |-> invalid_query]

ZeroDesc == <<0, 0>>

LineCloud(n) == [i \in 1..n |-> i]

Missing == Absent

Content(file) == IF file = Missing THEN <<>> ELSE file[1]

First(S, n) == {i \in S : Cardinality({j \in S : j <= i}) <= n}

\* estimator results with at most one keypoint per cloud, all of them valid
PlainLib(m, s) ==
    LET mk == First(FiniteIdx(m), 1)
        sk == First(FiniteIdx(s), 1)
    IN  Lib(mk, sk,
            [i \in 1..Cardinality(mk) |-> ZeroDesc], [i \in 1..Cardinality(sk) |-> ZeroDesc],
            [i \in 1..Cardinality(mk) |-> TRUE], [i \in 1..Cardinality(sk) |-> TRUE],
            [i \in 1..Cardinality(sk) |-> 1], "none")

Start(a, f, l) == argv = a /\ files = f /\ lib = l

\* Command lines and model clouds of every kind, plain estimator results.
ConfigRuns ==
    \E a \in {PlainArgv(o) : o \in OptionSets}
             \cup {Argv(TRUE, 2, FALSE, FALSE, NoOptions),
                   Argv(FALSE, 1, FALSE, FALSE, NoOptions),
                   Argv(FALSE, 2, TRUE, FALSE, NoOptions),
                   Argv(FALSE, 2, FALSE, TRUE, NoOptions)} :
      \E f \in {[model |-> m, scene |-> Given(LineCloud(2))] :
                    m \in {Given(c) : c \in Clouds} \cup {Missing}}
               \cup {[model |-> Given(LineCloud(2)), scene |-> Missing]} :
        Start(a, f, PlainLib(Content(f.model), Content(f.scene)))

HasInvalidQuery(sd) == \E i \in 1..Len(sd) : ~SkipDescriptor(sd[i]) /\ ~DescFinite(sd[i])

\* The index over the model descriptors leaves out every descriptor with a NaN
\* entry alike, so one such descriptor stands for them on the model side.
ModelDescs == FiniteDescs \cup {<<NaN, NaN>>}

\* Scene descriptors of every kind, on the default command line.
MatchRuns ==
    \E md \in SeqsUpTo(ModelDescs, MaxModelKp) :
      \E sd \in SeqsUpTo(Descs, MaxSceneKp) :
        \E q \in InvalidQueryOutcomes :
          /\ q = "none" \/ HasInvalidQuery(sd)
          /\ Start(PlainArgv(NoOptions),
                   [model |-> Given(LineCloud(MaxModelKp)),
                    scene |-> Given(LineCloud(MaxSceneKp))],
                   Lib(1..Len(md), 1..Len(sd), md, sd,
                       [i \in 1..Len(md) |-> TRUE], [i \in 1..Len(sd) |-> TRUE],
                       [i \in 1..Len(sd) |-> 1], q))

\* Local frames, Hough bins and thresholds of every kind, on matching descriptors.
ClusterRuns ==
    \E o \in {NoOptions} \cup {[NoOptions EXCEPT !["cg_thresh"] = Given(v)] : v \in ThreshArgs} :
      \E ns \in 0..MaxSceneKp :
        \E mv \in BOOLEAN :
          \E srf \in [1..ns -> BOOLEAN] :
            \E bin \in [1..ns -> 0..NBins] :
              Start(PlainArgv(o),
                    [model |-> Given(LineCloud(MaxModelKp)),
                     scene |-> Given(LineCloud(MaxSceneKp))],
                    Lib({1}, 1..ns, <<ZeroDesc>>, [i \in 1..ns |-> ZeroDesc],
                        <<mv>>, srf, bin, "none"))

-----------------------------------------------------------------------------
(* The program. *)

\* lines 28-33: the parameters' initial values
Defaults ==
    [model_ss |-> 10, scene_ss |-> 30, rf_rad |-> 15, descr_rad |-> 20,
     cg_size |-> 10, cg_thresh |-> 5]

Init ==
    /\ ConfigRuns \/ MatchRuns \/ ClusterRuns
    /\ pc = "parseCommandLine"
    /\ show_keypoints_ = FALSE
    /\ show_correspondences_ = FALSE
    /\ model_ss_ = Rat(Defaults.model_ss)
    /\ scene_ss_ = Rat(Defaults.scene_ss)
    /\ rf_rad_ = Rat(Defaults.rf_rad)
    /\ descr_rad_ = Rat(Defaults.descr_rad)
    /\ cg_size_ = Rat(Defaults.cg_size)
    /\ cg_thresh_ = Rat(Defaults.cg_thresh)
    /\ model = <<>>
    /\ scene = <<>>
    /\ model_normals = <<>>
    /\ scene_normals = <<>>
    /\ model_keypoints = <<>>
    /\ scene_keypoints = <<>>
    /\ model_descriptors = <<>>
    /\ scene_descriptors = <<>>
    /\ model_scene_corrs = <<>>
    /\ rototranslations = <<>>
    /\ clustered_corrs = <<>>
    /\ resolution = Rat(0)
    /\ queried = {}
    /\ model_rf = <<>>
    /\ scene_rf = <<>>
    /\ run = 1
    /\ prev = <<<<>>, <<>>>>

parseCommandLine ==
    /\ pc = "parseCommandLine"
    /\ \/ /\ argv.help
          /\ pc' = "exit(0)"
          /\ UNCHANGED <<flags, params>>
       \/ /\ ~argv.help
          /\ argv.nfiles # 2
          /\ pc' = "exit(-1)"
          /\ UNCHANGED <<flags, params>>
       \/ /\ ~argv.help
          /\ argv.nfiles = 2
          /\ show_keypoints_' = (argv.k \/ show_keypoints_)
          /\ show_correspondences_' = (argv.c \/ show_correspondences_)
          /\ model_ss_' = parse_argument(argv.opts, "model_ss", model_ss_)
          /\ scene_ss_' = parse_argument(argv.opts, "scene_ss", scene_ss_)
          /\ rf_rad_' = parse_argument(argv.opts, "rf_rad", rf_rad_)
          /\ descr_rad_' = parse_argument(argv.opts, "descr_rad", descr_rad_)
          /\ cg_size_' = parse_argument(argv.opts, "cg_size", cg_size_)
          /\ cg_thresh_' = parse_argument(argv.opts, "cg_thresh", cg_thresh_)
          /\ pc' = "loadClouds"
    /\ UNCHANGED <<env, clouds, descriptors, model_scene_corrs, results,
                   resolution, queried, frames, run, prev>>

loadClouds ==
    /\ pc = "loadClouds"
    /\ \/ /\ files.model = Missing
          /\ pc' = "return(-1)"
          /\ UNCHANGED <<model, scene>>
       \/ /\ files.model # Missing
          /\ files.scene = Missing
          /\ model' = Content(files.model)
          /\ pc' = "return(-1)"
          /\ UNCHANGED scene
       \/ /\ files.model # Missing
          /\ files.scene # Missing
          /\ model' = Content(files.model)
          /\ scene' = Content(files.scene)
          /\ pc' = "setUpResolution"
    /\ UNCHANGED <<env, flags, params, model_normals, scene_normals,
                   model_keypoints, scene_keypoints, descriptors, model_scene_corrs,
                   results, resolution, queried, frames, run, prev>>

\* the scaling without the test for a resolution of 0
ScaledAlways(radius, res) == RMul(radius, res)

\* lines 165-172: the radii are scaled when the resolution is not 0
Scaled(radius, res) == IF ~RIsZero(res) THEN RMul(radius, res) ELSE radius

\* setUpResolution scaling cg_thresh_ with the radii
setUpResolutionScalesThresh ==
    /\ pc = "setUpResolution"
    /\ resolution' = computeCloudResolution(model)
    /\ model_ss_' = Scaled(model_ss_, resolution')
    /\ scene_ss_' = Scaled(scene_ss_, resolution')
    /\ rf_rad_' = Scaled(rf_rad_, resolution')
    /\ descr_rad_' = Scaled(descr_rad_, resolution')
    /\ cg_size_' = Scaled(cg_size_, resolution')
    /\ cg_thresh_' = Scaled(cg_thresh_, resolution')
    /\ pc' = "computeNormals"
    /\ UNCHANGED <<env, flags, clouds, descriptors, model_scene_corrs,
                   results, queried, frames, run, prev>>

setUpResolution ==
    /\ pc = "setUpResolution"
    /\ resolution' = computeCloudResolution(model)
    /\ model_ss_' = Scaled(model_ss_, resolution')
    /\ scene_ss_' = Scaled(scene_ss_, resolution')
    /\ rf_rad_' = Scaled(rf_rad_, resolution')
    /\ descr_rad_' = Scaled(descr_rad_, resolution')
    /\ cg_size_' = Scaled(cg_size_, resolution')
    /\ pc' = "computeNormals"
    /\ UNCHANGED <<env, flags, cg_thresh_, clouds, descriptors, model_scene_corrs,
                   results, queried, frames, run, prev>>

\* norm_est.compute: one normal per point, finite where the point is
Normals(cloud) == [i \in 1..Len(cloud) |-> pcl_isfinite(cloud[i])]

computeNormals ==
    /\ pc = "computeNormals"
    /\ model_normals' = Normals(model)
    /\ scene_normals' = Normals(scene)
    /\ pc' = "extractKeypoints"
    /\ UNCHANGED <<env, flags, params, model, scene, model_keypoints, scene_keypoints,
                   descriptors, model_scene_corrs, results, resolution, queried,
                   frames, run, prev>>

\* uniform_sampling.filter: the kept points, in cloud order
RECURSIVE Kept(_, _, _)
Kept(cloud, keep, i) ==
    IF i > Len(cloud) THEN <<>>
    ELSE IF i \in keep THEN <<cloud[i]>> \o Kept(cloud, keep, i + 1)
    ELSE Kept(cloud, keep, i + 1)

extractKeypoints ==
    /\ pc = "extractKeypoints"
    /\ model_keypoints' = Kept(model, lib.mkept, 1)
    /\ scene_keypoints' = Kept(scene, lib.skept, 1)
    /\ pc' = "computeDescriptorForKeypoints"
    /\ UNCHANGED <<env, flags, params, model, scene, model_normals, scene_normals,
                   descriptors, model_scene_corrs, results, resolution, queried,
                   frames, run, prev>>

\* descr_est.compute: one descriptor per keypoint
computeDescriptorForKeypoints ==
    /\ pc = "computeDescriptorForKeypoints"
    /\ model_descriptors' = [i \in 1..Len(model_keypoints) |-> lib.md[i]]
    /\ scene_descriptors' = [i \in 1..Len(scene_keypoints) |-> lib.sd[i]]
    /\ pc' = "findModelSpaceCorrespondences"
    /\ UNCHANGED <<env, flags, params, clouds, model_scene_corrs, results,
                   resolution, queried, frames, run, prev>>

findModelSpaceCorrespondences ==
    /\ pc = "findModelSpaceCorrespondences"
    /\ LET r == CorrLoop(model_descriptors, scene_descriptors, lib.invalid_query,
                         0, model_scene_corrs, queried)
       IN  /\ model_scene_corrs' = r.corrs
           /\ queried' = r.queried
           /\ pc' = IF r.aborted THEN "abort" ELSE "clusteringUsingHough3D"
    /\ UNCHANGED <<env, flags, params, clouds, descriptors, results, resolution,
                   frames, run, prev>>

clusteringUsingHough3D ==
    /\ pc = "clusteringUsingHough3D"
    /\ model_rf' = [i \in 1..Len(model_keypoints) |-> lib.mrf[i]]
    /\ scene_rf' = [i \in 1..Len(scene_keypoints) |-> lib.srf[i]]
    /\ LET found == Recognize(model_scene_corrs, lib.bin, cg_thresh_, 1)
       IN  /\ rototranslations' = [i \in 1..Len(found) |-> found[i].bin]
           /\ clustered_corrs' = [i \in 1..Len(found) |-> found[i].corrs]
    /\ pc' = "outputResults"
    /\ UNCHANGED <<env, flags, params, clouds, descriptors, model_scene_corrs,
                   resolution, queried, run, prev>>

outputResults ==
    /\ pc = "outputResults"
    /\ pc' = "visualization"
    /\ UNCHANGED <<env, flags, params, clouds, descriptors, model_scene_corrs,
                   results, resolution, queried, frames, run, prev>>

visualization ==
    /\ pc = "visualization"
    /\ pc' = "return(0)"
    /\ UNCHANGED <<env, flags, params, clouds, descriptors, model_scene_corrs,
                   results, resolution, queried, frames, run, prev>>

Next ==
    \/ parseCommandLine
    \/ loadClouds
    \/ setUpResolution
    \/ computeNormals
    \/ extractKeypoints
    \/ computeDescriptorForKeypoints
    \/ findModelSpaceCorrespondences
    \/ clusteringUsingHough3D
    \/ outputResults
    \/ visualization

Spec == Init /\ [][Next]_vars

\* The pipeline, setUpResolution to clusteringUsingHough3D, started again in the
\* same process: the globals keep what the run before left in them.
Rerun ==
    /\ pc = "outputResults"
    /\ run < MaxRuns
    /\ run' = run + 1
    /\ prev' = results
    /\ pc' = "setUpResolution"
    /\ UNCHANGED <<env, flags, params, clouds, descriptors, model_scene_corrs,
                   results, resolution, queried, frames>>

NextRerun == Next \/ Rerun

SpecRerun == Init /\ [][NextRerun]_vars

-----------------------------------------------------------------------------
(* Properties. *)

Matched == pc \in {"clusteringUsingHough3D", "outputResults", "visualization", "return(0)"}

CorrIdx == 1..Len(model_scene_corrs)

\* the squared distance from scene descriptor i (1-based) to the nearest model
\* descriptor the index holds
NearestSqrDist(i) ==
    Min({DescSqrDist(model_descriptors[j], scene_descriptors[i]) :
            j \in ValidIdx(model_descriptors)})

\* C1: every correspondence in model_scene_corrs records a squared distance
\* strictly below 0.25, and a scene descriptor whose nearest model descriptor is
\* at squared distance 0.25 or more has no correspondence.
C1_DistanceBelowThreshold ==
    /\ \A k \in CorrIdx : model_scene_corrs[k].distance < AcceptThreshold
    /\ Matched =>
         \A i \in 1..Len(scene_descriptors) :
           ( /\ DescFinite(scene_descriptors[i])
             /\ ValidIdx(model_descriptors) # {}
             /\ NearestSqrDist(i) >= AcceptThreshold )
           => \A k \in CorrIdx : model_scene_corrs[k].index_match # i - 1

\* a run that emitted a correspondence at a distance above 0 and rejected scene
\* descriptors at exactly 0.25 and above it
C1_Witness ==
    /\ Matched
    /\ \E k \in CorrIdx : model_scene_corrs[k].distance > 0
    /\ \E i \in 1..Len(scene_descriptors) :
         /\ DescFinite(scene_descriptors[i])
         /\ ValidIdx(model_descriptors) # {}
         /\ NearestSqrDist(i) >= AcceptThreshold
         /\ i - 1 \in queried

\* C2: a scene descriptor with a non-finite entry at any position is skipped: no
\* query is issued for it and no correspondence carries its index.
C2_NonFiniteSkipped ==
    \A i \in 1..Len(scene_descriptors) :
      ~DescFinite(scene_descriptors[i]) =>
        /\ i - 1 \notin queried
        /\ \A k \in CorrIdx : model_scene_corrs[k].index_match # i - 1

\* C3: each scene keypoint index appears in at most one correspondence.
C3_SceneIndexOnce ==
    \A k, l \in CorrIdx :
      model_scene_corrs[k].index_match = model_scene_corrs[l].index_match => k = l

\* a run in which two scene keypoints matched the same model keypoint
C3_Witness ==
    /\ Matched
    /\ \E k, l \in CorrIdx :
         /\ k # l
         /\ model_scene_corrs[k].index_query = model_scene_corrs[l].index_query
         /\ Len(model_descriptors) > 1

\* the frame estimator finds the frames of both keypoints of a correspondence valid
FramesValid(c) == lib.mrf[c.index_query + 1] /\ lib.srf[c.index_match + 1]

\* C4: a keypoint whose local frame the estimator marks invalid is in no emitted
\* correspondence.
C4_InvalidFrameExcluded ==
    \A k \in CorrIdx : FramesValid(model_scene_corrs[k])

Radii == <<model_ss_, scene_ss_, rf_rad_, descr_rad_, cg_size_>>

\* a stage of the pipeline has run
StageRan ==
    pc \in {"computeNormals", "extractKeypoints", "computeDescriptorForKeypoints",
            "findModelSpaceCorrespondences", "clusteringUsingHough3D",
            "outputResults", "visualization", "return(0)", "abort"}

\* C5: with a configured radius of 0 or less, the run stops before any stage of
\* the pipeline executes.
C5_FailFast ==
    (\E o \in RadiusNames : argv.opts[o] # Absent /\ argv.opts[o][1] <= 0) => ~StageRan

\* the points whose query for 2 neighbours returns 2: the finite points of a cloud
\* with another finite point
Qualifying(cloud) ==
    {i \in FiniteIdx(cloud) : FiniteIdx(cloud) \ {i} # {}}

Abs(n) == IF n < 0 THEN -n ELSE n

\* the distance from point i to the nearest other finite point
SecondNearest(cloud, i) ==
    CHOOSE d \in {Abs(cloud[i] - cloud[j]) : j \in FiniteIdx(cloud) \ {i}} :
      \A j \in FiniteIdx(cloud) \ {i} : d <= Abs(cloud[i] - cloud[j])

RECURSIVE SumSecondNearest(_, _)
SumSecondNearest(cloud, S) ==
    IF S = {} THEN 0
    ELSE LET i == CHOOSE x \in S : TRUE
         IN  SecondNearest(cloud, i) + SumSecondNearest(cloud, S \ {i})

Input(name) == parse_argument(argv.opts, name, Rat(Defaults[name]))

RadiusOf(name) ==
    CASE name = "model_ss" -> model_ss_
      [] name = "scene_ss" -> scene_ss_
      [] name = "rf_rad" -> rf_rad_
      [] name = "descr_rad" -> descr_rad_
      [] name = "cg_size" -> cg_size_

\* C7: after setUpResolution each radius is its input value times the resolution
\* when the resolution is not 0 and its input value when it is 0, and the run
\* goes on to computeNormals in both cases.
C7_ScaledByResolution ==
    /\ [](StageRan =>
            \A o \in RadiusNames :
              IF RIsZero(resolution) THEN RadiusOf(o) = Input(o)
              ELSE REq(RadiusOf(o), RMul(Input(o), resolution)))
    /\ [][pc = "setUpResolution" => pc' = "computeNormals"]_vars

\* a run with a resolution of 0 on a cloud of two equal points that reached the
\* later stages with a radius given on the command line unscaled
C7_Witness ==
    /\ pc = "clusteringUsingHough3D"
    /\ Len(model) = 2
    /\ Qualifying(model) # {}
    /\ RIsZero(resolution)
    /\ argv.opts["rf_rad"] # Absent
    /\ rf_rad_ = Input("rf_rad")

\* C8: every instance clusteringUsingHough3D emits is supported by at least 3
\* correspondences.
C8_MinSupport ==
    /\ Len(rototranslations) = Len(clustered_corrs)
    /\ \A k \in 1..Len(clustered_corrs) : Len(clustered_corrs[k]) >= 3

\* C9: the pipeline run again on the same clouds and configuration, from the
\* state the first run left, yields the instances of the first run.
C9_Idempotent ==
    (run > 1 /\ pc = "outputResults") => results = prev

\* C10: no stage after setUpResolution changes a radius, and nothing after
\* parseCommandLine changes cg_thresh_.
C10_ParamsFrozen ==
    [][ /\ pc \notin {"parseCommandLine", "loadClouds", "setUpResolution"} => Radii' = Radii
        /\ pc # "parseCommandLine" => cg_thresh_' = cg_thresh_ ]_vars

\* a run that ended with its radii scaled by a resolution other than 0 and 1 and
\* with the threshold given on the command line
C10_Witness ==
    /\ pc = "return(0)"
    /\ ~RIsZero(resolution)
    /\ ~REq(resolution, Rat(1))
    /\ ~REq(model_ss_, Input("model_ss"))
    /\ argv.opts["cg_thresh"] # Absent
    /\ cg_thresh_ = Input("cg_thresh")

====
